---- MODULE Spec2Model ----
(***************************************************************************)
(* Model of the FileEditor server's multireplace_lines_in_file tool: the   *)
(* batch edit coordinator that applies several line-range edits, given in  *)
(* the coordinates of the original file, to one file in one pass.          *)
(*                                                                         *)
(* Text is a sequence of characters; a file is its whole text.  Lines are  *)
(* obtained with Split (String.prototype.split on the newline) and written *)
(* back with Join (Array.prototype.join with the newline).                 *)
(***************************************************************************)
EXTENDS Integers, Sequences, FiniteSets, TLC

(***************************************************************************)
(* Bounds of the model.                                                    *)
(***************************************************************************)
MaxFileLen == 2     \* characters in the file before the call
MaxLineNo == 3      \* largest line number an edit may name
MaxEdits == 2       \* edits in one batch
MaxTextLen == 3     \* characters of a file and of an expected text given
                    \* to verifyLineContent on its own

NL == "\n"
FileChars == {"a", " ", NL}

Max(x, y) == IF x >= y THEN x ELSE y
Min(x, y) == IF x <= y THEN x ELSE y

SeqsUpTo(S, n) == UNION {[1..k -> S] : k \in 0..n}

FileContents == SeqsUpTo(FileChars, MaxFileLen)

\* The texts a caller gives as line_start_contents and as contents.  The
\* expected text is the empty one: an empty line equals it, a line of one
\* space equals it after normalization only, a line with "a" does not.  The
\* replacement has one line or two.
ExpectedTexts == {<<>>}
ReplacementTexts == {<<"b">>, <<"b", NL, "b">>}

\* The zod schema of one edit: line_start and line_end are positive integers,
\* nothing relates them to each other.
EditRequests ==
    [line_start : 1..MaxLineNo, line_end : 1..MaxLineNo,
     line_start_contents : ExpectedTexts, contents : ReplacementTexts]

Batches == SeqsUpTo(EditRequests, MaxEdits)

(***************************************************************************)
(* String and array primitives of the runtime.                             *)
(***************************************************************************)
RECURSIVE FirstNL(_, _)
\* index of the first newline of s at or after k, 0 when there is none
FirstNL(s, k) ==
    IF k > Len(s) THEN 0
    ELSE IF s[k] = NL THEN k
    ELSE FirstNL(s, k + 1)

RECURSIVE SplitLines(_)
\* Split for a reader that finds no line in an empty text
SplitLines(s) ==
    LET k == FirstNL(s, 1) IN
    IF s = <<>> THEN <<>>
    ELSE IF k = 0 THEN <<s>>
    ELSE <<SubSeq(s, 1, k - 1)>> \o SplitLines(SubSeq(s, k + 1, Len(s)))

RECURSIVE Split(_)
\* content.split('\n')
Split(s) ==
    LET k == FirstNL(s, 1) IN
    IF k = 0 THEN <<s>>
    ELSE <<SubSeq(s, 1, k - 1)>> \o Split(SubSeq(s, k + 1, Len(s)))

RECURSIVE JoinTerminated(_)
\* Join for a writer that ends every line with the newline
JoinTerminated(lines) ==
    IF Len(lines) = 0 THEN <<>>
    ELSE lines[1] \o <<NL>> \o JoinTerminated(Tail(lines))

RECURSIVE Join(_)
\* lines.join('\n')
Join(lines) ==
    IF Len(lines) = 0 THEN <<>>
    ELSE IF Len(lines) = 1 THEN lines[1]
    ELSE lines[1] \o <<NL>> \o Join(Tail(lines))

\* Array.prototype.slice(begin, end): 0-based, end exclusive, a negative
\* index counts from the end of the array, both are clamped to the array.
SliceIndex(n, len) == IF n < 0 THEN Max(len + n, 0) ELSE Min(n, len)
Slice(s, begin, end) ==
    SubSeq(s, SliceIndex(begin, Len(s)) + 1, SliceIndex(end, Len(s)))
SliceFrom(s, begin) == Slice(s, begin, Len(s))

IsSpace(c) == c \in {" ", "\t", NL}

RECURSIVE TrimStart(_)
TrimStart(s) ==
    IF s # <<>> /\ IsSpace(s[1]) THEN TrimStart(Tail(s)) ELSE s

RECURSIVE TrimEnd(_)
TrimEnd(s) ==
    IF s # <<>> /\ IsSpace(s[Len(s)]) THEN TrimEnd(SubSeq(s, 1, Len(s) - 1))
    ELSE s

RECURSIVE CollapseSpaces(_)
\* replace(/\s+/g, ' ')
CollapseSpaces(s) ==
    IF s = <<>> THEN <<>>
    ELSE IF IsSpace(s[1])
         THEN <<" ">> \o CollapseSpaces(TrimStart(s))
         ELSE <<s[1]>> \o CollapseSpaces(Tail(s))

\* normalizeContent that trims only
normalizeContentTrimOnly(content) == TrimEnd(TrimStart(content))

\* content.trim().replace(/\s+/g, ' ')
normalizeContent(content) == CollapseSpaces(TrimEnd(TrimStart(content)))

(***************************************************************************)
(* multireplace_lines_in_file: the pure parts of execute.                  *)
(***************************************************************************)
\* compareEdits that compares line_start only
compareEditsByStart(a, b) ==
    IF a.line_start < b.line_start THEN -1
    ELSE IF a.line_start > b.line_start THEN 1
    ELSE 0

\* The comparator handed to edits.sort: ascending by (line_start, line_end).
compareEdits(a, b) ==
    IF a.line_start < b.line_start THEN -1
    ELSE IF a.line_start > b.line_start THEN 1
    ELSE IF a.line_end < b.line_end THEN -1
    ELSE IF a.line_end > b.line_end THEN 1
    ELSE 0

RECURSIVE InsertEdit(_, _)
\* e put into the sorted array s behind every element that does not sort
\* after it
InsertEdit(e, s) ==
    IF s = <<>> \/ compareEdits(s[Len(s)], e) <= 0 THEN Append(s, e)
    ELSE Append(InsertEdit(e, SubSeq(s, 1, Len(s) - 1)), s[Len(s)])

RECURSIVE SortEdits(_)
\* edits.sort(comparator): Array.prototype.sort is stable
SortEdits(s) ==
    IF s = <<>> THEN <<>>
    ELSE InsertEdit(s[Len(s)], SortEdits(SubSeq(s, 1, Len(s) - 1)))

\* Overlaps with a strict comparison: a range starting on the line the
\* previous one ends on passes
OverlapsStrictly(line_start, previousEnd) == line_start < previousEnd

\* the test of the overlap loop
Overlaps(line_start, previousEnd) == line_start <= previousEnd

RECURSIVE OverlapFrom(_, _, _)
\* the overlap loop from the k-th sorted edit on: the line_start named by
\* the error it throws, 0 when it throws none
OverlapFrom(sorted, k, previousEnd) ==
    IF k > Len(sorted) THEN 0
    ELSE IF Overlaps(sorted[k].line_start, previousEnd)
         THEN sorted[k].line_start
         ELSE OverlapFrom(sorted, k + 1, sorted[k].line_end)

\* OverlapLine for a loop that starts with previousEnd = 1
OverlapLineFromOne(sorted) == OverlapFrom(sorted, 1, 1)

\* the overlap loop, started with previousEnd = -1
OverlapLine(sorted) == OverlapFrom(sorted, 1, -1)

NoValue == <<>>
Some(v) == <<v>>

\* BoundsLength taken from the working copy
BoundsLengthOfWorkingCopy(originalLines, workingLines) == Len(workingLines)

\* The length the bounds checks of one edit compare against.
BoundsLength(originalLines, workingLines) == Len(originalLines)

\* The comparison of the expected start line with the original one.
ContentDiffers(originalLineContent, line_start_contents) ==
    originalLineContent # line_start_contents

\* VerifyOriginal without the check of line_start against line_end
VerifyOriginalNoRangeCheck(edit, originalLines, workingLines) ==
    LET len == Len(originalLines) IN
    IF edit.line_start > len
    THEN <<[kind |-> "NotExist", line |-> edit.line_start, len |-> len]>>
    ELSE IF edit.line_end > len
    THEN <<[kind |-> "NotExist", line |-> edit.line_end, len |-> len]>>
    ELSE IF originalLines[edit.line_start] # edit.line_start_contents
    THEN <<[kind |-> "ContentMismatch", line |-> edit.line_start,
            expected |-> normalizeContent(edit.line_start_contents),
            actual |-> normalizeContent(originalLines[edit.line_start])]>>
    ELSE <<>>

\* The checks of one edit made on the original file: the UserError thrown,
\* NoValue when none is.
VerifyOriginal(edit, originalLines, workingLines) ==
    LET len == BoundsLength(originalLines, workingLines) IN
    IF edit.line_start > len
    THEN Some([kind |-> "NotExist", line |-> edit.line_start, len |-> len])
    ELSE IF edit.line_end > len
    THEN Some([kind |-> "NotExist", line |-> edit.line_end, len |-> len])
    ELSE IF edit.line_start > edit.line_end
    THEN Some([kind |-> "InvalidRange"])
    ELSE IF ContentDiffers(originalLines[edit.line_start],
                           edit.line_start_contents)
    THEN Some([kind |-> "ContentMismatch", line |-> edit.line_start,
               expected |-> normalizeContent(edit.line_start_contents),
               actual |-> normalizeContent(originalLines[edit.line_start])])
    ELSE NoValue

RECURSIVE AdjustmentOfLaterEdits(_, _, _)
\* Adjustment with the comparison turned round: only the shifts recorded for
\* a start at or behind line_start count
AdjustmentOfLaterEdits(lineShifts, k, line_start) ==
    IF k > Len(lineShifts) THEN 0
    ELSE (IF lineShifts[k].start >= line_start THEN lineShifts[k].shift
          ELSE 0)
         + AdjustmentOfLaterEdits(lineShifts, k + 1, line_start)

RECURSIVE Adjustment(_, _, _)
\* the sum of the recorded shifts whose start is at or before line_start,
\* over the records from the k-th on
Adjustment(lineShifts, k, line_start) ==
    IF k > Len(lineShifts) THEN 0
    ELSE (IF lineShifts[k].start <= line_start THEN lineShifts[k].shift
          ELSE 0)
         + Adjustment(lineShifts, k + 1, line_start)

\* EditShift that forgets the lines the edit removes
EditShiftOfNewLength(edit) == Len(Split(edit.contents))

\* the shift an edit causes
EditShift(edit) ==
    Len(Split(edit.contents)) - (edit.line_end - edit.line_start + 1)

\* Splice that keeps the last line of the range
SpliceBeforeEnd(workingLines, currentStartIndex, currentEndIndex, contents) ==
    Slice(workingLines, 0, currentStartIndex)
        \o Split(contents)
        \o SliceFrom(workingLines, currentEndIndex)

\* the replacement of the translated range in the working copy
Splice(workingLines, currentStartIndex, currentEndIndex, contents) ==
    Slice(workingLines, 0, currentStartIndex)
        \o Split(contents)
        \o SliceFrom(workingLines, currentEndIndex + 1)

\* FailedEdit for a loop that records the shift of an edit before checking
\* it: the failed edit leaves its shift among the recorded ones
FailedEditRecordingShift(edit, i, err, workingLines, lineShifts) ==
    [result |-> [index |-> i, success |-> FALSE,
                 line_start |-> edit.line_start,
                 line_end |-> edit.line_end,
                 shift |-> NoValue, error |-> Some(err)],
     workingLines |-> workingLines,
     lineShifts |-> Append(lineShifts,
                           [start |-> edit.line_start,
                            end |-> edit.line_end,
                            shift |-> Len(Split(edit.contents))
                                      - (edit.line_end - edit.line_start + 1)])]

\* The catch of one turn: the result is a failure carrying the error, the
\* working copy and the shifts are as they were.
FailedEdit(edit, i, err, workingLines, lineShifts) ==
    [result |-> [index |-> i, success |-> FALSE,
                 line_start |-> edit.line_start,
                 line_end |-> edit.line_end,
                 shift |-> NoValue, error |-> Some(err)],
     workingLines |-> workingLines,
     lineShifts |-> lineShifts]

\* ProcessEdit for a loop whose checks read the working copy, as they would
\* if the working copy were the array of the original lines itself
ProcessEditOnWorkingCopy(edit, i, originalLines, workingLines, lineShifts) ==
    LET failed(err) == FailedEdit(edit, i, err, workingLines, lineShifts)
        thrown == VerifyOriginal(edit, workingLines, workingLines)
        adjustment == Adjustment(lineShifts, 1, edit.line_start)
        currentStartIndex == edit.line_start - 1 + adjustment
        endIndex == edit.line_end - 1 + adjustment
        currentEndIndex == IF endIndex >= Len(workingLines)
                           THEN Len(workingLines) - 1
                           ELSE endIndex
        shift == EditShift(edit)
    IN  IF thrown # NoValue THEN failed(thrown[1])
        ELSE IF currentStartIndex >= Len(workingLines)
        THEN failed([kind |-> "NoLongerExists", line |-> edit.line_start])
        ELSE [result |-> [index |-> i, success |-> TRUE,
                          line_start |-> edit.line_start,
                          line_end |-> edit.line_end,
                          shift |-> Some(shift), error |-> NoValue],
              workingLines |-> Splice(workingLines, currentStartIndex,
                                      currentEndIndex, edit.contents),
              lineShifts |-> Append(lineShifts,
                                    [start |-> edit.line_start,
                                     end |-> edit.line_end,
                                     shift |-> shift])]

\* One turn of the processing loop, for the edit at index i of the sorted
\* array: the result pushed and the working copy and shifts afterwards.
ProcessEdit(edit, i, originalLines, workingLines, lineShifts) ==
    LET failed(err) == FailedEdit(edit, i, err, workingLines, lineShifts)
        thrown == VerifyOriginal(edit, originalLines, workingLines)
        adjustment == Adjustment(lineShifts, 1, edit.line_start)
        currentStartIndex == edit.line_start - 1 + adjustment
        endIndex == edit.line_end - 1 + adjustment
        currentEndIndex == IF endIndex >= Len(workingLines)
                           THEN Len(workingLines) - 1
                           ELSE endIndex
        shift == EditShift(edit)
    IN  IF thrown # NoValue THEN failed(thrown[1])
        ELSE IF currentStartIndex >= Len(workingLines)
        THEN failed([kind |-> "NoLongerExists", line |-> edit.line_start])
        ELSE [result |-> [index |-> i, success |-> TRUE,
                          line_start |-> edit.line_start,
                          line_end |-> edit.line_end,
                          shift |-> Some(shift), error |-> NoValue],
              workingLines |-> Splice(workingLines, currentStartIndex,
                                      currentEndIndex, edit.contents),
              lineShifts |-> Append(lineShifts,
                                    [start |-> edit.line_start,
                                     end |-> edit.line_end,
                                     shift |-> shift])]

RECURSIVE CountSuccessOnly(_, _)
\* CountSuccess with the same filter for both counts
CountSuccessOnly(results, b) ==
    IF results = <<>> THEN 0
    ELSE (IF results[1].success THEN 1 ELSE 0)
         + CountSuccessOnly(Tail(results), b)

RECURSIVE CountSuccess(_, _)
\* results.filter(r => r.success === b).length
CountSuccess(results, b) ==
    IF results = <<>> THEN 0
    ELSE (IF results[1].success = b THEN 1 ELSE 0)
         + CountSuccess(Tail(results), b)

\* One line of the returned text: 'Edit i: SUCCESS - lines s-e (shift: n
\* lines)' or 'Edit i: FAILED - lines s-e - error'.
ReportLine(r) ==
    [edit |-> r.index,
     status |-> IF r.success THEN "SUCCESS" ELSE "FAILED",
     line_start |-> r.line_start, line_end |-> r.line_end,
     shift |-> IF r.success /\ r.shift # NoValue THEN r.shift ELSE NoValue,
     error |-> IF r.success THEN NoValue ELSE r.error]

\* The text returned by a call that went through.
Report(results) ==
    [successful |-> CountSuccess(results, TRUE),
     failed |-> CountSuccess(results, FALSE),
     lines |-> [k \in 1..Len(results) |-> ReportLine(results[k])]]

(***************************************************************************)
(* Paths and the checks made on file_path before a tool touches the file.  *)
(* The file system holds one regular file, /file, and one directory, /dir; *)
(* the working directory of the server is the root, so that the relative   *)
(* path file names the regular file as well.                               *)
(***************************************************************************)
Paths == {<<"/", "file">>, <<"file">>, <<"/", "dir">>, <<"/", "missing">>}

\* path.isAbsolute
isAbsolute(p) == p # <<>> /\ p[1] = "/"

\* the path a file system call of the process resolves p to
Resolve(p) == IF isAbsolute(p) THEN p ELSE <<"/">> \o p

\* fs.statSync: what is found at p
statSync(p) ==
    IF Resolve(p) = <<"/", "file">> THEN "file"
    ELSE IF Resolve(p) = <<"/", "dir">> THEN "directory"
    ELSE "ENOENT"

\* validateAbsolutePath without its test
validateAbsolutePathOmitted(filePath) == <<>>

\* validateAbsolutePath: the UserError thrown, NoValue when none is
validateAbsolutePath(filePath) ==
    IF ~isAbsolute(filePath)
    THEN Some([kind |-> "NotAbsolute", path |-> filePath])
    ELSE NoValue

\* validateFileExists: the UserError thrown, NoValue when none is.  The
\* error for a path that is not a file is thrown inside the try block and
\* rethrown by its catch as an error of access.
validateFileExists(filePath) ==
    IF statSync(filePath) = "ENOENT"
    THEN Some([kind |-> "FileNotFound", path |-> filePath])
    ELSE IF statSync(filePath) # "file"
    THEN Some([kind |-> "ErrorAccessing", path |-> filePath,
               message |-> "NotAFile"])
    ELSE NoValue

\* the two checks every tool starts with
ValidatePath(file_path) ==
    IF validateAbsolutePath(file_path) # NoValue
    THEN validateAbsolutePath(file_path)
    ELSE validateFileExists(file_path)

(***************************************************************************)
(* The state: the file on disk and one call of a tool.                     *)
(***************************************************************************)
VARIABLES
    file,           \* the content of the file on disk
    pc,             \* where the call is: idle, process, done, rejected for
                    \* the batch; verified, read, returned for the other
                    \* tools; failed for a call that threw before editing
    tool,           \* the tool called, "none" before the call
    file_path,      \* the file_path argument
    args,           \* the other arguments of a single-range tool
    before,         \* the content of the file when the call arrived
    reads,          \* how many times the call has read the file content
    others,         \* the contents other writers wrote during the call
    inProcess,      \* the other invocation of the same server process that
                    \* has run, NoValue while none has
    submitted,      \* the edits in the order the caller listed them
    edits,          \* the edits array of execute, sorted in place
    originalContent,\* the content read at the start of the call
    originalLines,  \* the lines read at the start of the call
    workingLines,   \* the working copy
    lineShifts,     \* the shifts of the edits applied so far
    results,        \* the results pushed so far
    writes,         \* the contents written to the file by the call, in order
    returned,       \* the text returned, NoValue while there is none
    thrown          \* the UserError the call threw, NoValue while none

vars == <<file, pc, tool, file_path, args, before, reads, others,
          inProcess,
          submitted, edits, originalContent, originalLines, workingLines,
          lineShifts, results, writes, returned, thrown>>

\* the variables of the processing loop of the batch
loopVars == <<submitted, edits, originalLines, workingLines, lineShifts,
              results>>

Init ==
    /\ file \in FileContents
    /\ pc = "idle"
    /\ tool = "none"
    /\ file_path = <<>>
    /\ args = NoValue
    /\ before = <<>>
    /\ reads = 0
    /\ others = <<>>
    /\ inProcess = NoValue
    /\ submitted = <<>>
    /\ edits = <<>>
    /\ originalContent = <<>>
    /\ originalLines = <<>>
    /\ workingLines = <<>>
    /\ lineShifts = <<>>
    /\ results = <<>>
    /\ writes = <<>>
    /\ returned = NoValue
    /\ thrown = NoValue

\* A call arrives for the tool t with the path p: the two checks of the
\* path are made; when one throws, the call ends there.
Arrive(t, p) ==
    /\ pc = "idle"
    /\ tool' = t
    /\ file_path' = p
    /\ before' = file
    /\ UNCHANGED <<file, others, inProcess, writes, returned>>

Refused(p) ==
    /\ ValidatePath(p) # NoValue
    /\ pc' = "failed"
    /\ thrown' = ValidatePath(p)
    /\ UNCHANGED <<args, reads, originalContent, loopVars>>

\* execute of multireplace_lines_in_file up to the processing loop, for any
\* batch of edits: check the path, read the file once, copy the lines, sort
\* the edits and check them for overlaps.
CallOn(batches) ==
    /\ pc = "idle"
    /\ \E p \in Paths :
        /\ Arrive("multireplace_lines_in_file", p)
        /\ \/ Refused(p)
           \/ /\ ValidatePath(p) = NoValue
              /\ \E batch \in batches :
                  /\ submitted' = batch
                  /\ edits' = SortEdits(batch)
                  /\ reads' = reads + 1
                  /\ originalContent' = file
                  /\ originalLines' = Split(file)
                  /\ workingLines' = Split(file)
                  /\ IF OverlapLine(edits') # 0
                     THEN /\ pc' = "rejected"
                          /\ thrown' = Some([kind |-> "OverlappingRanges",
                                             line |-> OverlapLine(edits')])
                     ELSE /\ pc' = "process"
                          /\ thrown' = NoValue
                  /\ UNCHANGED <<args, lineShifts, results>>

Call == CallOn(Batches)

\* one turn of the processing loop
\* ProcessNext for a loop whose working copy is read from the file when the
\* first edit is processed
ProcessNextOnDisk ==
    /\ pc = "process"
    /\ Len(results) < Len(edits)
    /\ LET i == Len(results)
           current == IF i = 0 THEN Split(file) ELSE workingLines
           out == ProcessEdit(edits[i + 1], i, originalLines, current,
                              lineShifts)
       IN /\ workingLines' = out.workingLines
          /\ lineShifts' = out.lineShifts
          /\ results' = Append(results, out.result)
    /\ UNCHANGED <<file, pc, tool, file_path, args, before, reads, others, inProcess,
                   submitted, edits, originalContent,
                   originalLines, writes, returned, thrown>>

\* one turn of the processing loop
ProcessNext ==
    /\ pc = "process"
    /\ Len(results) < Len(edits)
    /\ LET i == Len(results)
           out == ProcessEdit(edits[i + 1], i, originalLines, workingLines,
                              lineShifts)
       IN /\ workingLines' = out.workingLines
          /\ lineShifts' = out.lineShifts
          /\ results' = Append(results, out.result)
    /\ UNCHANGED <<file, pc, tool, file_path, args, before, reads, others, inProcess,
                   submitted, edits, originalContent,
                   originalLines, writes, returned, thrown>>

\* Commit for a call that writes only when an edit was applied
CommitIfEdited ==
    /\ pc = "process"
    /\ Len(results) = Len(edits)
    /\ IF \E k \in 1..Len(results) : results[k].success
       THEN /\ file' = Join(workingLines)
            /\ writes' = Append(writes, Join(workingLines))
       ELSE UNCHANGED <<file, writes>>
    /\ returned' = <<Report(results)>>
    /\ pc' = "done"
    /\ UNCHANGED <<tool, file_path, args, before, reads, others, inProcess,
                   submitted, edits, originalContent, originalLines,
                   workingLines, lineShifts, results, thrown>>

\* after the loop: write the working copy and return the report
Commit ==
    /\ pc = "process"
    /\ Len(results) = Len(edits)
    /\ file' = Join(workingLines)
    /\ writes' = Append(writes, Join(workingLines))
    /\ returned' = Some(Report(results))
    /\ pc' = "done"
    /\ UNCHANGED <<tool, file_path, args, before, reads, others, inProcess,
                   submitted, edits, originalContent, originalLines,
                   workingLines, lineShifts, results, thrown>>

(***************************************************************************)
(* verifyLineContent and the single-range tools delete_from_file,          *)
(* insert_into_file and replace_lines_in_file.                             *)
(***************************************************************************)
\* the expected line texts and the inserted or replacing texts of a call
LineTexts == {<<>>, <<"a">>}
NewTexts == ReplacementTexts

\* verifyLineContent on a file whose content is content when it is read:
\* the UserError thrown, or the actual line returned
verifyLineContent(content, lineNumber, expectedContent) ==
    LET lines == Split(content) IN
    IF lineNumber < 1 \/ lineNumber > Len(lines)
    THEN [thrown |-> Some([kind |-> "NotExist", line |-> lineNumber,
                           len |-> Len(lines)]),
          returned |-> NoValue]
    ELSE LET actualContent == lines[lineNumber]
             normalizedActual == normalizeContent(actualContent)
             normalizedExpected == normalizeContent(expectedContent)
         IN  IF normalizedActual # normalizedExpected
             THEN [thrown |-> Some([kind |-> "ContentMismatch",
                                    line |-> lineNumber,
                                    expected |-> normalizedExpected,
                                    actual |-> normalizedActual]),
                   returned |-> NoValue]
             ELSE [thrown |-> NoValue, returned |-> Some(actualContent)]

\* the checks delete_from_file and replace_lines_in_file make on the lines
\* they read: the UserError thrown, NoValue when none is
RangeError(lines, line_start, line_end) ==
    IF line_start > Len(lines) \/ line_end > Len(lines)
    THEN Some([kind |-> "BeyondLength", line_start |-> line_start,
               line_end |-> line_end, len |-> Len(lines)])
    ELSE IF line_start > line_end
    THEN Some([kind |-> "InvalidRange"])
    ELSE NoValue

\* deleteLines that keeps the lines up to line_start
deleteLinesAfterStart(lines, line_start, line_end) ==
    Slice(lines, 0, line_start) \o SliceFrom(lines, line_end)

\* newLines of delete_from_file
deleteLines(lines, line_start, line_end) ==
    Slice(lines, 0, line_start - 1) \o SliceFrom(lines, line_end)

\* replaceLines that keeps the line at line_end
replaceLinesBeforeEnd(lines, line_start, line_end, contents) ==
    Slice(lines, 0, line_start - 1) \o <<contents>>
        \o SliceFrom(lines, line_end - 1)

\* newLines of replace_lines_in_file: contents is one element of the array
replaceLines(lines, line_start, line_end, contents) ==
    Slice(lines, 0, line_start - 1) \o <<contents>>
        \o SliceFrom(lines, line_end)

\* lines.splice(insertIndex, 0, contents)
spliceIn(lines, insertIndex, contents) ==
    Slice(lines, 0, insertIndex) \o <<contents>>
        \o SliceFrom(lines, insertIndex)

\* insertIndex that does not look at where
insertIndexAfter(where, line_number) == line_number

\* the index insert_into_file splices at
insertIndex(where, line_number) ==
    IF where = "after" THEN line_number ELSE line_number - 1

\* insertLines without the case of line number 0
insertLinesBySplice(lines, line_number, where, contents) ==
    spliceIn(lines, insertIndex(where, line_number), contents)

\* the lines of insert_into_file after the insertion
insertLines(lines, line_number, where, contents) ==
    IF line_number = 0 THEN Append(lines, contents)
    ELSE spliceIn(lines, insertIndex(where, line_number), contents)

DeleteArgs ==
    [line_start : 1..MaxLineNo, line_end : 1..MaxLineNo,
     line_start_contents : LineTexts]

InsertArgs ==
    [line_number : 0..MaxLineNo, line_contents : LineTexts,
     where : {"before", "after"}, contents : NewTexts]

ReplaceLinesArgs ==
    [line_start : 1..MaxLineNo, line_end : 1..MaxLineNo,
     line_start_contents : LineTexts, contents : NewTexts]

\* the call throws err
Throw(err) ==
    /\ pc' = "failed"
    /\ thrown' = err
    /\ UNCHANGED <<file, writes, returned>>

\* the call writes content and returns the message msg
WriteAndReturn(content, msg) ==
    /\ file' = content
    /\ writes' = Append(writes, content)
    /\ returned' = Some(msg)
    /\ pc' = "returned"
    /\ UNCHANGED thrown

\* A call of delete_from_file or of replace_lines_in_file arrives: the path
\* is checked and verifyLineContent reads the file and checks the start line.
ArriveAndVerify(t, argsOf) ==
    /\ pc = "idle"
    /\ \E p \in Paths :
        /\ Arrive(t, p)
        /\ \/ Refused(p)
           \/ /\ ValidatePath(p) = NoValue
              /\ \E a \in argsOf :
                  LET v == verifyLineContent(file, a.line_start,
                                             a.line_start_contents)
                  IN  /\ args' = Some(a)
                      /\ reads' = reads + 1
                      /\ thrown' = v.thrown
                      /\ pc' = IF v.thrown # NoValue THEN "failed"
                               ELSE "verified"
                      /\ UNCHANGED <<originalContent, loopVars>>

DeleteVerify == ArriveAndVerify("delete_from_file", DeleteArgs)

\* DeleteEdit that writes the lines left before it checks the range
DeleteEditUnchecked ==
    /\ pc = "verified"
    /\ tool = "delete_from_file"
    /\ LET a == args[1]
           lines == Split(file)
           newContent == Join(deleteLines(lines, a.line_start, a.line_end))
       IN  /\ originalContent' = file
           /\ reads' = reads + 1
           /\ file' = newContent
           /\ writes' = Append(writes, newContent)
           /\ IF RangeError(lines, a.line_start, a.line_end) # NoValue
              THEN /\ pc' = "failed"
                   /\ thrown' = RangeError(lines, a.line_start, a.line_end)
                   /\ UNCHANGED returned
              ELSE /\ pc' = "returned"
                   /\ returned' = <<[kind |-> "Deleted"]>>
                   /\ UNCHANGED thrown
    /\ UNCHANGED <<tool, file_path, args, before, others, inProcess, loopVars>>

\* delete_from_file after the verification: read the file again, check the
\* range, write the lines left
DeleteEdit ==
    /\ pc = "verified"
    /\ tool = "delete_from_file"
    /\ LET a == args[1]
           lines == Split(file)
       IN  /\ originalContent' = file
           /\ reads' = reads + 1
           /\ IF RangeError(lines, a.line_start, a.line_end) # NoValue
              THEN Throw(RangeError(lines, a.line_start, a.line_end))
              ELSE WriteAndReturn(
                       Join(deleteLines(lines, a.line_start, a.line_end)),
                       [kind |-> "Deleted", line_start |-> a.line_start,
                        line_end |-> a.line_end])
    /\ UNCHANGED <<tool, file_path, args, before, others, inProcess, loopVars>>

ReplaceLinesVerify ==
    ArriveAndVerify("replace_lines_in_file", ReplaceLinesArgs)

\* replace_lines_in_file after the verification: read the file again, check
\* the range, write the lines with the range replaced
ReplaceLinesEdit ==
    /\ pc = "verified"
    /\ tool = "replace_lines_in_file"
    /\ LET a == args[1]
           lines == Split(file)
       IN  /\ originalContent' = file
           /\ reads' = reads + 1
           /\ IF RangeError(lines, a.line_start, a.line_end) # NoValue
              THEN Throw(RangeError(lines, a.line_start, a.line_end))
              ELSE WriteAndReturn(
                       Join(replaceLines(lines, a.line_start, a.line_end,
                                         a.contents)),
                       [kind |-> "Replaced", line_start |-> a.line_start,
                        line_end |-> a.line_end])
    /\ UNCHANGED <<tool, file_path, args, before, others, inProcess, loopVars>>

\* delete_from_file as a function of the file content and the arguments,
\* for a call no other writer interferes with: what the call throws and the
\* content of the file after it
delete_from_file(content, a) ==
    LET v == verifyLineContent(content, a.line_start, a.line_start_contents)
        lines == Split(content)
        range == RangeError(lines, a.line_start, a.line_end)
    IN  IF v.thrown # NoValue THEN [thrown |-> v.thrown, file |-> content]
        ELSE IF range # NoValue THEN [thrown |-> range, file |-> content]
        ELSE [thrown |-> NoValue,
              file |-> Join(deleteLines(lines, a.line_start, a.line_end))]

\* replace_lines_in_file as a function of the file content and the
\* arguments, for a call no other writer interferes with: what the call
\* throws and the content of the file after it
replace_lines_in_file(content, a) ==
    LET v == verifyLineContent(content, a.line_start, a.line_start_contents)
        lines == Split(content)
        range == RangeError(lines, a.line_start, a.line_end)
    IN  IF v.thrown # NoValue THEN [thrown |-> v.thrown, file |-> content]
        ELSE IF range # NoValue THEN [thrown |-> range, file |-> content]
        ELSE [thrown |-> NoValue,
              file |-> Join(replaceLines(lines, a.line_start, a.line_end,
                                         a.contents))]

\* A call of insert_into_file arrives: the path is checked and the file is
\* read.
InsertRead ==
    /\ pc = "idle"
    /\ \E p \in Paths :
        /\ Arrive("insert_into_file", p)
        /\ \/ Refused(p)
           \/ /\ ValidatePath(p) = NoValue
              /\ \E a \in InsertArgs :
                  /\ args' = Some(a)
                  /\ reads' = reads + 1
                  /\ originalContent' = file
                  /\ pc' = "read"
                  /\ UNCHANGED <<thrown, loopVars>>

\* insert_into_file after the read: for a line number other than 0,
\* verifyLineContent reads the file and checks the line; the text is put
\* into the lines read before and they are written
InsertApply ==
    /\ pc = "read"
    /\ tool = "insert_into_file"
    /\ LET a == args[1]
           lines == Split(originalContent)
           v == verifyLineContent(file, a.line_number, a.line_contents)
           msg == [kind |-> "Inserted", line_number |-> a.line_number,
                   where |-> a.where]
       IN  IF a.line_number = 0
           THEN /\ UNCHANGED reads
                /\ WriteAndReturn(Join(insertLines(lines, 0, a.where,
                                                   a.contents)), msg)
           ELSE /\ reads' = reads + 1
                /\ IF v.thrown # NoValue
                   THEN Throw(v.thrown)
                   ELSE WriteAndReturn(
                            Join(insertLines(lines, a.line_number, a.where,
                                             a.contents)), msg)
    /\ UNCHANGED <<tool, file_path, args, before, others, inProcess, originalContent,
                   loopVars>>

(***************************************************************************)
(* replace_in_file: the regular expressions are the literal ones.          *)
(***************************************************************************)
Patterns == {<<>>, <<"a">>, <<"a", "a">>, <<NL>>}
Targets == {<<"b">>, <<"b", "b">>}

ReplaceArgs ==
    [regex_source : Patterns, target : Targets,
     multiple : {NoValue, Some(TRUE), Some(FALSE)}]

\* the regular expression matches content at position k
MatchesAt(content, pattern, k) ==
    /\ k + Len(pattern) - 1 <= Len(content)
    /\ SubSeq(content, k, k + Len(pattern) - 1) = pattern

\* the character of content at k, nothing past the end
CharAt(content, k) == IF k <= Len(content) THEN <<content[k]>> ELSE <<>>

RECURSIVE matchFrom(_, _, _)
\* content.match(regex) of a global regex from position k on: the positions
\* of the matches, left to right, each search starting where the match
\* before ended and one character further after an empty match
matchFrom(content, pattern, k) ==
    IF k > Len(content) + 1 THEN <<>>
    ELSE IF MatchesAt(content, pattern, k)
    THEN <<k>> \o matchFrom(content, pattern, k + Max(Len(pattern), 1))
    ELSE matchFrom(content, pattern, k + 1)

RECURSIVE replaceFrom(_, _, _, _)
\* content.replace(regex, target) of a global regex from position k on
replaceFrom(content, pattern, target, k) ==
    IF k > Len(content) + 1 THEN <<>>
    ELSE IF MatchesAt(content, pattern, k)
    THEN IF pattern = <<>>
         THEN target \o CharAt(content, k)
                \o replaceFrom(content, pattern, target, k + 1)
         ELSE target
                \o replaceFrom(content, pattern, target, k + Len(pattern))
    ELSE CharAt(content, k) \o replaceFrom(content, pattern, target, k + 1)

\* replace of a regex that is not global: the first match only
replaceFirst(content, pattern, target) ==
    LET matches == matchFrom(content, pattern, 1) IN
    IF matches = <<>> THEN content
    ELSE SubSeq(content, 1, matches[1] - 1) \o target
           \o SubSeq(content, matches[1] + Len(pattern), Len(content))

\* content.replace(regex, target)
replace(content, pattern, target) == replaceFrom(content, pattern, target, 1)

\* !multiple of the optional parameter
NotMultiple(multiple) == multiple = NoValue \/ ~multiple[1]

\* A call of replace_in_file arrives: the path is checked, the file is read
\* and the matches are counted.
ReplaceMatch ==
    /\ pc = "idle"
    /\ \E p \in Paths :
        /\ Arrive("replace_in_file", p)
        /\ \/ Refused(p)
           \/ /\ ValidatePath(p) = NoValue
              /\ \E a \in ReplaceArgs :
                  LET matches == matchFrom(file, a.regex_source, 1) IN
                  /\ args' = Some(a)
                  /\ reads' = reads + 1
                  /\ originalContent' = file
                  /\ IF matches = <<>>
                     THEN /\ pc' = "failed"
                          /\ thrown' = Some([kind |-> "NoMatches"])
                     ELSE IF NotMultiple(a.multiple) /\ Len(matches) > 1
                     THEN /\ pc' = "failed"
                          /\ thrown' = Some([kind |-> "MultipleMatches",
                                             count |-> Len(matches)])
                     ELSE /\ pc' = "matched"
                          /\ thrown' = NoValue
                  /\ UNCHANGED loopVars

\* replace_in_file after the checks: replace in the content read, write
ReplaceWrite ==
    /\ pc = "matched"
    /\ tool = "replace_in_file"
    /\ LET a == args[1] IN
       WriteAndReturn(
           replace(originalContent, a.regex_source, a.target),
           [kind |-> "ReplacedOccurrences",
            count |-> Len(matchFrom(originalContent, a.regex_source, 1))])
    /\ UNCHANGED <<tool, file_path, args, before, reads, others, inProcess,
                   originalContent, loopVars>>

Next ==
    \/ Call
    \/ ProcessNext
    \/ Commit
    \/ DeleteVerify
    \/ DeleteEdit
    \/ ReplaceLinesVerify
    \/ ReplaceLinesEdit
    \/ InsertRead
    \/ InsertApply
    \/ ReplaceMatch
    \/ ReplaceWrite

Spec == Init /\ [][Next]_vars

\* the batch tool alone
NextBatch ==
    \/ Call
    \/ ProcessNext
    \/ Commit

SpecBatch == Init /\ [][NextBatch]_vars

\* the batch tool called with edits whose replacement is the empty text
BlankRequests ==
    [line_start : 1..MaxLineNo, line_end : 1..MaxLineNo,
     line_start_contents : ExpectedTexts, contents : {<<>>}]

BlankBatches == SeqsUpTo(BlankRequests, MaxEdits)

CallBlank == CallOn(BlankBatches)

NextBlank ==
    \/ CallBlank
    \/ ProcessNext
    \/ Commit

SpecBlank == Init /\ [][NextBlank]_vars

(***************************************************************************)
(* The tools beside other writers of the file: nothing locks the file, so  *)
(* another process may write it at any point of a call between two of the  *)
(* call's own file operations.                                             *)
(***************************************************************************)
MaxOthers == 1      \* writes of other writers during one call

ExternalContents == {<<"x">>, <<"x", NL, "x">>}

\* the batches of at most one edit
RaceBatches == SeqsUpTo(EditRequests, 1)

\* another writer writes the file while the call has read it and has not
\* yet written it
ExternalWrite ==
    /\ pc \in {"process", "verified", "read", "matched"}
    /\ Len(others) < MaxOthers
    /\ \E c \in ExternalContents :
        /\ file' = c
        /\ others' = Append(others, c)
    /\ UNCHANGED <<pc, tool, file_path, args, before, reads, inProcess,
                   originalContent,
                   loopVars, writes, returned, thrown>>

CallRace == CallOn(RaceBatches)

NextRace ==
    \/ CallRace
    \/ ProcessNext
    \/ Commit
    \/ DeleteVerify
    \/ DeleteEdit
    \/ ReplaceLinesVerify
    \/ ReplaceLinesEdit
    \/ InsertRead
    \/ InsertApply
    \/ ReplaceMatch
    \/ ReplaceWrite
    \/ ExternalWrite

SpecRace == Init /\ [][NextRace]_vars

(***************************************************************************)
(* verifyLineContent on its own: any file, line number and expected text.  *)
(***************************************************************************)
VerifyChars == {"a", " ", "\t", NL}
VerifyContents == SeqsUpTo(VerifyChars, MaxTextLen)
VerifyTexts == SeqsUpTo({"a", " ", "\t"}, MaxTextLen)

InitVerify ==
    /\ file \in VerifyContents
    /\ pc = "idle"
    /\ tool = "none"
    /\ file_path = <<>>
    /\ args = NoValue
    /\ before = <<>>
    /\ reads = 0
    /\ others = <<>>
    /\ inProcess = NoValue
    /\ submitted = <<>>
    /\ edits = <<>>
    /\ originalContent = <<>>
    /\ originalLines = <<>>
    /\ workingLines = <<>>
    /\ lineShifts = <<>>
    /\ results = <<>>
    /\ writes = <<>>
    /\ returned = NoValue
    /\ thrown = NoValue

\* one call of verifyLineContent on the file
VerifyLine ==
    /\ pc = "idle"
    /\ \E lineNumber \in 0..MaxLineNo, expectedContent \in VerifyTexts :
        LET v == verifyLineContent(file, lineNumber, expectedContent) IN
        /\ tool' = "verifyLineContent"
        /\ args' = Some([lineNumber |-> lineNumber,
                         expectedContent |-> expectedContent])
        /\ before' = file
        /\ reads' = reads + 1
        /\ thrown' = v.thrown
        /\ returned' = v.returned
        /\ pc' = IF v.thrown # NoValue THEN "failed" ELSE "returned"
    /\ UNCHANGED <<file, file_path, others, inProcess, originalContent, writes,
                   loopVars>>

NextVerify == VerifyLine

SpecVerify == InitVerify /\ [][NextVerify]_vars

RECURSIVE RunLoop(_, _, _, _, _, _)
\* the processing loop from the k-th sorted edit on
RunLoop(sorted, k, oLines, wLines, shifts, res) ==
    IF k > Len(sorted) THEN [workingLines |-> wLines, results |-> res]
    ELSE LET out == ProcessEdit(sorted[k], k - 1, oLines, wLines, shifts)
         IN RunLoop(sorted, k + 1, oLines, out.workingLines, out.lineShifts,
                    Append(res, out.result))

\* execute as a function of the file content and the edits: what the call
\* throws or returns and the content of the file after it.
execute(content, batch) ==
    LET sorted == SortEdits(batch)
        lines == Split(content)
        out == RunLoop(sorted, 1, lines, lines, <<>>, <<>>)
    IN  IF OverlapLine(sorted) # 0
        THEN [thrown |-> Some([kind |-> "OverlappingRanges",
                               line |-> OverlapLine(sorted)]),
              returned |-> NoValue,
              file |-> content]
        ELSE [thrown |-> NoValue,
              returned |-> Some(Report(out.results)),
              file |-> Join(out.workingLines)]

(***************************************************************************)
(* Two invocations in one server process.  The event loop runs the body of *)
(* an invocation until it awaits or ends, and only then the body of        *)
(* another one.                                                            *)
(***************************************************************************)
\* YieldPoints for bodies that await each read of the file
YieldPointsAfterReads == {"process", "verified"}

\* the points of a call at which its body awaits: the bodies are async
\* functions that call the synchronous file functions and await nothing
YieldPoints == {}

\* the points at which no body is running: before the call and after it
\* ended
BetweenCalls == {"idle", "done", "rejected", "returned", "failed"}

\* the other invocation: a delete_from_file or a batch of at most one edit,
\* on the same file
InProcessCalls ==
    [tool : {"delete_from_file"}, args : DeleteArgs]
        \cup [tool : {"multireplace_lines_in_file"}, args : RaceBatches]

\* the content of the file after the body of call has run on content
RunCall(content, call) ==
    IF call.tool = "delete_from_file"
    THEN delete_from_file(content, call.args).file
    ELSE execute(content, call.args).file

\* the event loop runs the body of the other invocation
OtherInvocation ==
    /\ pc \in BetweenCalls \cup YieldPoints
    /\ inProcess = NoValue
    /\ \E call \in InProcessCalls :
        /\ file' = RunCall(file, call)
        /\ inProcess' = Some([call |-> call, at |-> pc, before |-> file])
    /\ UNCHANGED <<pc, tool, file_path, args, before, reads, others,
                   originalContent, loopVars, writes, returned, thrown>>

NextLoop ==
    \/ CallRace
    \/ ProcessNext
    \/ Commit
    \/ DeleteVerify
    \/ DeleteEdit
    \/ OtherInvocation

SpecLoop == Init /\ [][NextLoop]_vars

(***************************************************************************)
(* Vocabulary of the properties.                                           *)
(***************************************************************************)
\* the call went through the overlap check and has returned
Done == pc = "done"

\* the lines of the returned report
Outcomes == returned[1].lines

\* the lines of the file as it is now and its length before the call
FinalLines == Split(file)
L == Len(Split(originalContent))

RemoveAt(s, j) == SubSeq(s, 1, j - 1) \o SubSeq(s, j + 1, Len(s))

\* the position, in ascending (line_start, line_end) order, ties in the
\* order of submission, of the j-th submitted edit
SortedPos(batch, j) ==
    1 + Cardinality({m \in 1..Len(batch) :
                        \/ batch[m].line_start < batch[j].line_start
                        \/ /\ batch[m].line_start = batch[j].line_start
                           /\ batch[m].line_end < batch[j].line_end
                        \/ /\ batch[m].line_start = batch[j].line_start
                           /\ batch[m].line_end = batch[j].line_end
                           /\ m < j})

\* the outcome the report gives for the j-th submitted edit, found by the
\* processing position of that edit
OutcomeOf(j) == Outcomes[SortedPos(submitted, j)]

Succeeded(j) == OutcomeOf(j).status = "SUCCESS"

RECURSIVE ShiftsBefore(_, _)
\* the sum of the reported shifts of the successful edits, among the first
\* j submitted, whose range ends before the original line n
ShiftsBefore(j, n) ==
    IF j = 0 THEN 0
    ELSE (IF Succeeded(j) /\ submitted[j].line_end < n
          THEN OutcomeOf(j).shift[1] ELSE 0)
         + ShiftsBefore(j - 1, n)

\* the original line n is inside the range of a successful edit
Edited(n) ==
    \E j \in 1..Len(submitted) :
        /\ Succeeded(j)
        /\ submitted[j].line_start <= n
        /\ n <= submitted[j].line_end

\* the lines of the replacement text of the j-th submitted edit stand in the
\* file where its range stood, moved by the shifts of the edits before it
AppliedInFile(j) ==
    LET new == Split(submitted[j].contents)
        at == submitted[j].line_start
              + ShiftsBefore(Len(submitted), submitted[j].line_start)
    IN  /\ at >= 1
        /\ at + Len(new) - 1 <= Len(FinalLines)
        /\ SubSeq(FinalLines, at, at + Len(new) - 1) = new

\* the original line n stands unchanged at its shifted position
KeptInFile(n) ==
    LET at == n + ShiftsBefore(Len(submitted), n)
    IN  /\ at >= 1
        /\ at <= Len(FinalLines)
        /\ FinalLines[at] = Split(originalContent)[n]

(***************************************************************************)
(* C1 - shift correctness.  When every edit of a batch succeeded, the file *)
(* has L plus the sum of the reported shifts lines, every edited range is  *)
(* replaced by the lines of its replacement text, and every original line  *)
(* outside the edited ranges stands unchanged at its original position     *)
(* plus the shifts of the edits whose ranges precede it.                   *)
(***************************************************************************)
AllSucceeded == Done /\ \A j \in 1..Len(submitted) : Succeeded(j)

ShiftCorrectness ==
    AllSucceeded =>
        /\ Len(FinalLines) = L + ShiftsBefore(Len(submitted), L + 1)
        /\ \A j \in 1..Len(submitted) : AppliedInFile(j)
        /\ \A n \in 1..L : ~Edited(n) => KeptInFile(n)

\* two edits listed in descending order all succeeded, one of them changed
\* the line count, and an untouched line behind them moved
ShiftCorrectnessWitness ==
    /\ AllSucceeded
    /\ Len(submitted) = 2
    /\ submitted[1].line_start > submitted[2].line_start
    /\ \E n \in 1..L : ~Edited(n) /\ ShiftsBefore(Len(submitted), n) # 0

(***************************************************************************)
(* C2 - overlap rejection.  A call whose batch holds two distinct edits a  *)
(* and b with a.line_start <= b.line_start <= a.line_end throws the        *)
(* overlapping-ranges error, applies no edit, writes nothing and leaves    *)
(* the file as it was.                                                     *)
(***************************************************************************)
\* the batch has been taken by a call
Called == pc # "idle"

\* the call threw the overlapping-ranges error without touching the file
RejectedWhole ==
    /\ pc = "rejected"
    /\ thrown # NoValue
    /\ thrown[1].kind = "OverlappingRanges"
    /\ returned = NoValue
    /\ results = <<>>
    /\ workingLines = originalLines
    /\ writes = <<>>
    /\ file = originalContent

\* b starts inside the range of a
StartsInside(a, b) ==
    a.line_start <= b.line_start /\ b.line_start <= a.line_end

\* b is an inverted range (line_end before line_start) starting on the
\* first line of a
InvertedAtStartOf(a, b) ==
    b.line_start = a.line_start /\ b.line_end < b.line_start

\* the statement as claimed: any two distinct edits, one starting inside
\* the other
OverlapRejectionAnyPair ==
    (/\ Called
     /\ \E i, j \in 1..Len(submitted) :
            i # j /\ StartsInside(submitted[i], submitted[j]))
    => RejectedWhole

\* the statement that holds: the same, b not being an inverted range that
\* starts on the first line of a
OverlapRejection ==
    (/\ Called
     /\ \E i, j \in 1..Len(submitted) :
            /\ i # j
            /\ StartsInside(submitted[i], submitted[j])
            /\ ~InvertedAtStartOf(submitted[i], submitted[j]))
    => RejectedWhole

\* a rejected call whose overlapping pair was listed with the later range
\* first
OverlapRejectionWitness ==
    /\ RejectedWhole
    /\ Len(submitted) = 2
    /\ StartsInside(submitted[2], submitted[1])
    /\ submitted[2].line_start < submitted[1].line_start
    /\ submitted[1].line_start <= submitted[1].line_end

(***************************************************************************)
(* C3 - outcomes in submission order.  In a call that passed the overlap   *)
(* check, the outcome reported as 'Edit i' describes the i-th edit of the  *)
(* list the caller submitted (counting from 0, as the report does), and    *)
(* the outcome lines stand in submission order.                            *)
(***************************************************************************)
OutcomesInSubmissionOrder ==
    Done =>
        /\ Len(Outcomes) = Len(submitted)
        /\ \A k \in 1..Len(Outcomes) :
            /\ Outcomes[k].edit = k - 1
            /\ Outcomes[k].line_start = submitted[k].line_start
            /\ Outcomes[k].line_end = submitted[k].line_end

(***************************************************************************)
(* C4 - normalized verification in a batch.  An edit whose range lies in   *)
(* the original file and whose expected text equals the original line at   *)
(* line_start after normalization (trim, whitespace runs collapsed) passes *)
(* verification and is applied.                                            *)
(***************************************************************************)
\* the range of e is well formed and lies within the original file
RangeInOriginal(e) ==
    /\ e.line_start <= e.line_end
    /\ e.line_end <= L

\* the expected text of e and the original line agree after normalization
MatchesNormalized(e) ==
    normalizeContent(Split(originalContent)[e.line_start])
        = normalizeContent(e.line_start_contents)

NormalizedVerification ==
    Done =>
        \A j \in 1..Len(submitted) :
            (RangeInOriginal(submitted[j]) /\ MatchesNormalized(submitted[j]))
                => Succeeded(j)

(***************************************************************************)
(* C5 - partial-failure isolation.  A failing edit does not affect the     *)
(* other edits of its batch: they have the same status and the same shift, *)
(* and the file is the same, as in the batch without the failing edit.     *)
(***************************************************************************)
\* what an outcome line says apart from its ordinal
OutcomeBody(o) ==
    [line_start |-> o.line_start, line_end |-> o.line_end,
     status |-> o.status, shift |-> o.shift]

OutcomeBodies(lines) == [k \in 1..Len(lines) |-> OutcomeBody(lines[k])]

\* the call ended, by returning or by throwing
Ended == pc \in {"done", "rejected"}

\* the call ended as the call on the batch without the j-th submitted edit
\* would: the same file, and the same outcomes for the other edits
SameWithout(j) ==
    LET without == execute(originalContent, RemoveAt(submitted, j))
    IN  /\ without.file = file
        /\ (without.returned = NoValue) <=> (returned = NoValue)
        /\ returned # NoValue =>
              OutcomeBodies(without.returned[1].lines)
                  = RemoveAt(OutcomeBodies(Outcomes),
                             SortedPos(submitted, j))

\* the edit e, submitted alone on the original file, is reported FAILED
FailsAlone(e) ==
    execute(originalContent, <<e>>).returned[1].failed = 1

\* the statement as claimed, for every batch: an edit that fails is one the
\* call did not apply and that fails when it is the only edit
FailureIsolationAnyBatch ==
    Ended =>
        \A j \in 1..Len(submitted) :
            (/\ FailsAlone(submitted[j])
             /\ Done => ~Succeeded(j))
                => SameWithout(j)

\* the statement that holds: for every batch that passes the overlap check
\* and every edit reported FAILED
FailureIsolation ==
    Done =>
        \A j \in 1..Len(submitted) : ~Succeeded(j) => SameWithout(j)

\* a failed edit processed before an edit that succeeded and changed the
\* number of lines
FailureIsolationWitness ==
    /\ Done
    /\ Len(submitted) = 2
    /\ \E j, k \in 1..2 :
        /\ ~Succeeded(j)
        /\ Succeeded(k)
        /\ submitted[j].line_start < submitted[k].line_start
        /\ OutcomeOf(k).shift # <<0>>

(***************************************************************************)
(* C6 - one write per call.  A call that passes the overlap check writes   *)
(* the file exactly once, after all edits have been processed, whatever    *)
(* the numbers of successes and failures, the empty edit list included; a  *)
(* call rejected for overlapping ranges writes nothing.                    *)
(***************************************************************************)
SingleWrite ==
    /\ Done => /\ Len(writes) = 1
               /\ Len(results) = Len(submitted)
               /\ writes[1] = file
    /\ (~Done /\ tool \in {"none", "multireplace_lines_in_file"})
           => writes = <<>>

\* a finished call with an empty edit list, which wrote once
SingleWriteWitness ==
    /\ Done
    /\ submitted = <<>>
    /\ Len(writes) = 1

(***************************************************************************)
(* C7 - round trip.  When no edit of the batch succeeded (empty list, or   *)
(* every edit failed), the content written is the original content         *)
(* exactly: splitting on the newline and joining again is the identity,    *)
(* also for the empty file and for a file ending in a newline.             *)
(***************************************************************************)
NoneSucceeded == Done /\ returned[1].successful = 0

RoundTrip ==
    NoneSucceeded => /\ writes = <<originalContent>>
                     /\ file = originalContent

\* a file ending in a newline went through a call whose only edit failed
RoundTripWitness ==
    /\ NoneSucceeded
    /\ Len(submitted) = 1
    /\ originalContent # <<>>
    /\ originalContent[Len(originalContent)] = NL

(***************************************************************************)
(* C8 - invalid edits are per-edit failures.  An edit that is invalid on   *)
(* its own (line_start > line_end, a line absent from the original file,   *)
(* or mismatching expected text) is captured as a failed outcome for that  *)
(* edit only: it does not make the call throw, and the other edits that    *)
(* succeed are applied in the file.                                        *)
(***************************************************************************)
InvalidOnItsOwn(e) == ~RangeInOriginal(e) \/ ~MatchesNormalized(e)

\* the j-th submitted edit is reported FAILED, the call returned, and the
\* other edits that succeeded are applied in the file
CapturedAlone(j) ==
    /\ thrown = NoValue
    /\ returned # NoValue
    /\ OutcomeOf(j).status = "FAILED"
    /\ OutcomeOf(j).error # NoValue
    /\ \A k \in 1..Len(submitted) : k # j /\ Succeeded(k) => AppliedInFile(k)

\* the batch without its j-th edit passes the overlap check
PassesWithout(j) ==
    execute(originalContent, RemoveAt(submitted, j)).thrown = NoValue

\* the statement as claimed, for every batch: an invalid edit never turns a
\* batch that would go through into a rejected one
InvalidEditNeverAborts ==
    Ended =>
        \A j \in 1..Len(submitted) :
            (InvalidOnItsOwn(submitted[j]) /\ PassesWithout(j))
                => (Done /\ CapturedAlone(j))

\* the statement that holds: for every batch that passes the overlap check
InvalidEditCaptured ==
    Done =>
        \A j \in 1..Len(submitted) :
            InvalidOnItsOwn(submitted[j]) => CapturedAlone(j)

\* an inverted range within the file, listed first, was reported FAILED
\* and the edit listed after it succeeded
InvalidEditCapturedWitness ==
    /\ Done
    /\ Len(submitted) = 2
    /\ submitted[1].line_start > submitted[1].line_end
    /\ submitted[1].line_start <= L
    /\ CapturedAlone(1)
    /\ Succeeded(2)

(***************************************************************************)
(* C9 - bounds against the original.  line_start and line_end are checked  *)
(* against the length L of the original file, never against the working    *)
(* copy: an edit with line_start > L or line_end > L fails, for that edit  *)
(* only, with an error citing L, also when the working copy has grown to   *)
(* have a line of that number.                                             *)
(***************************************************************************)
\* the error thrown for an edit naming a line beyond the original file
BeyondOriginal(e) ==
    [kind |-> "NotExist",
     line |-> IF e.line_start > L THEN e.line_start ELSE e.line_end,
     len |-> L]

BoundsAgainstOriginal ==
    pc \in {"process", "done"} =>
        \A k \in 1..Len(results) :
            (edits[k].line_start > L \/ edits[k].line_end > L) =>
                /\ ~results[k].success
                /\ results[k].error = <<BeyondOriginal(edits[k])>>
                /\ thrown = NoValue

\* the last edit names a line the original file lacks and the working copy
\* has, and it failed
BoundsAgainstOriginalWitness ==
    /\ Done
    /\ Len(edits) = 2
    /\ results[1].success
    /\ edits[2].line_end > L
    /\ edits[2].line_end <= Len(workingLines)
    /\ edits[2].line_start <= edits[2].line_end
    /\ ~results[2].success

(***************************************************************************)
(* C10 - one outcome per edit.  A call that passes the overlap check       *)
(* returns exactly one outcome per submitted edit, each either SUCCESS     *)
(* with a shift or FAILED with a reason, never both, and the reported      *)
(* numbers of successes and failures add up to the number of edits.        *)
(***************************************************************************)
WithStatus(st) == {k \in 1..Len(Outcomes) : Outcomes[k].status = st}

OneOutcomePerEdit ==
    Done =>
        /\ Len(Outcomes) = Len(submitted)
        /\ \A k \in 1..Len(Outcomes) :
            \/ /\ Outcomes[k].status = "SUCCESS"
               /\ Outcomes[k].shift # NoValue
               /\ Outcomes[k].error = NoValue
            \/ /\ Outcomes[k].status = "FAILED"
               /\ Outcomes[k].shift = NoValue
               /\ Outcomes[k].error # NoValue
        /\ returned[1].successful = Cardinality(WithStatus("SUCCESS"))
        /\ returned[1].failed = Cardinality(WithStatus("FAILED"))
        /\ returned[1].successful + returned[1].failed = Len(submitted)

\* a report with one SUCCESS and one FAILED outcome
OneOutcomePerEditWitness ==
    /\ Done
    /\ Len(submitted) = 2
    /\ returned[1].successful = 1
    /\ returned[1].failed = 1

(***************************************************************************)
(* Claims about the single-range tools.                                    *)
(***************************************************************************)
\* the call of tool t has returned its success message
ReturnedFrom(t) == pc = "returned" /\ tool = t

\* the call of tool t has thrown
FailedIn(t) == pc = "failed" /\ tool = t

\* the lines the edit step of the call read, and the lines of the file now
OldLines == Split(originalContent)
NewLines == Split(file)

\* new is old without the lines s..e: the lines before s stay, each line
\* after e moves up by the size of the range
DeletedExactly(old, new, s, e) ==
    /\ Len(new) = Len(old) - (e - s + 1)
    /\ \A k \in 1..(s - 1) : new[k] = old[k]
    /\ \A k \in (e + 1)..Len(old) : new[k - (e - s + 1)] = old[k]

\* C11 as stated: a successful delete_from_file of the lines start..end
\* leaves the file with exactly those lines removed, whatever the range.
DeleteRemovesRangeAlways ==
    ReturnedFrom("delete_from_file") =>
        DeletedExactly(OldLines, NewLines, args[1].line_start,
                       args[1].line_end)

\* the range of the call is every line that was read
WholeFile == args[1].line_start = 1 /\ args[1].line_end = Len(OldLines)

\* C11: a successful delete_from_file of the lines start..end that are not
\* the whole file leaves exactly those lines removed: n - (end - start + 1)
\* lines, the lines before start unchanged, each line k after end at
\* k - (end - start + 1); deleting every line leaves the empty file, which
\* reads as one empty line.
DeleteRemovesRange ==
    ReturnedFrom("delete_from_file") =>
        IF WholeFile
        THEN file = <<>> /\ NewLines = << <<>> >>
        ELSE DeletedExactly(OldLines, NewLines, args[1].line_start,
                            args[1].line_end)

\* a middle line of three was deleted: a line stays and a line moves up
DeleteRemovesRangeWitness ==
    /\ ReturnedFrom("delete_from_file")
    /\ args[1].line_start > 1
    /\ args[1].line_end < Len(OldLines)
    /\ Len(NewLines) = 2

\* the tools that edit one range or one position of the file
RangeTools == {"delete_from_file", "insert_into_file", "replace_lines_in_file"}

\* C12: whenever delete_from_file, insert_into_file or replace_lines_in_file
\* returns an error (a line that does not exist, a range beyond the length
\* of the file, line_start > line_end, a content mismatch), nothing was
\* written and the file is what it was before the call.
NoWriteOnError ==
    (pc = "failed" /\ tool \in RangeTools) =>
        writes = <<>> /\ file = before

\* a call passed the verification of its start line and failed on its range
NoWriteOnErrorWitness ==
    /\ FailedIn("delete_from_file")
    /\ thrown[1].kind = "BeyondLength"
    /\ reads = 2

\* new is old with the lines of text put in after the first idx lines: the
\* lines of old keep their order, those after idx move down by Len(text)
InsertedAfter(old, new, text, idx) ==
    /\ Len(new) = Len(old) + Len(text)
    /\ \A j \in 1..idx : new[j] = old[j]
    /\ \A j \in 1..Len(text) : new[idx + j] = text[j]
    /\ \A j \in (idx + 1)..Len(old) : new[j + Len(text)] = old[j]

\* C13: a successful insert_into_file at line n >= 1 with a text of k lines
\* puts the text at n..n+k-1 for where = before, the original line n moving
\* to n+k, and at n+1..n+k for where = after; every original line is kept,
\* in order, and the file grows by exactly k lines.
InsertPlacesText ==
    (ReturnedFrom("insert_into_file") /\ args[1].line_number >= 1) =>
        LET n == args[1].line_number
            text == Split(args[1].contents)
        IN  IF args[1].where = "before"
            THEN /\ InsertedAfter(OldLines, NewLines, text, n - 1)
                 /\ NewLines[n + Len(text)] = OldLines[n]
            ELSE InsertedAfter(OldLines, NewLines, text, n)

\* two lines were inserted before the second line of a longer file
InsertPlacesTextWitness ==
    /\ ReturnedFrom("insert_into_file")
    /\ args[1].line_number = 2
    /\ args[1].where = "before"
    /\ Len(Split(args[1].contents)) = 2
    /\ Len(OldLines) = 3

\* C14: insert_into_file with line_number = 0 always appends the text after
\* the last line, for both values of where and whatever line_contents is
\* (it is not verified): the call on a valid path never fails and every
\* original line is unchanged.
AppendAtZero ==
    (/\ tool = "insert_into_file"
     /\ pc \in {"returned", "failed"}
     /\ args # NoValue
     /\ args[1].line_number = 0) =>
        /\ pc = "returned"
        /\ reads = 1
        /\ InsertedAfter(OldLines, NewLines, Split(args[1].contents),
                         Len(OldLines))

\* a text was appended by a call whose line_contents is on no line
AppendAtZeroWitness ==
    /\ ReturnedFrom("insert_into_file")
    /\ args[1].line_number = 0
    /\ args[1].where = "before"
    /\ args[1].line_contents = <<"a">>
    /\ \A k \in 1..Len(OldLines) : OldLines[k] # <<"a">>
    /\ Len(OldLines) = 2

\* new is old with the lines s..e replaced by the lines of text
ReplacedExactly(old, new, text, s, e) ==
    /\ Len(new) = Len(old) - (e - s + 1) + Len(text)
    /\ \A j \in 1..(s - 1) : new[j] = old[j]
    /\ \A j \in 1..Len(text) : new[s + j - 1] = text[j]
    /\ \A j \in (e + 1)..Len(old) :
           new[j - (e - s + 1) + Len(text)] = old[j]

\* C15: a successful replace_lines_in_file of the lines start..end by a text
\* of k lines on a file of n lines leaves n - (end - start + 1) + k lines:
\* the lines before start unchanged, the text at start..start+k-1, each
\* original line j after end at j - (end - start + 1) + k.
ReplaceLinesExactly ==
    ReturnedFrom("replace_lines_in_file") =>
        ReplacedExactly(OldLines, NewLines, Split(args[1].contents),
                        args[1].line_start, args[1].line_end)

\* the first two lines of three were replaced by two lines
ReplaceLinesExactlyWitness ==
    /\ ReturnedFrom("replace_lines_in_file")
    /\ args[1].line_start = 1
    /\ args[1].line_end = 2
    /\ Len(OldLines) = 3
    /\ Len(Split(args[1].contents)) = 2

(***************************************************************************)
(* Claims about replace_in_file.                                           *)
(***************************************************************************)
\* the positions of content where pattern stands
PositionsOf(content, pattern) ==
    {k \in 1..(Len(content) + 1) : MatchesAt(content, pattern, k)}

\* the positions in S are those of occurrences that do not overlap
Disjoint(S, pattern) ==
    \A j, k \in S : j < k => j + Max(Len(pattern), 1) <= k

\* the number of occurrences of pattern in content: the most occurrences
\* that can be taken without overlap
Occurrences(content, pattern) ==
    LET sizes == {Cardinality(S) :
                    S \in {T \in SUBSET PositionsOf(content, pattern) :
                             Disjoint(T, pattern)}}
    IN  CHOOSE n \in sizes : \A m \in sizes : m <= n

\* a call of replace_in_file on a valid path has ended
ReplaceEnded ==
    /\ tool = "replace_in_file"
    /\ pc \in {"failed", "returned"}
    /\ args # NoValue

\* C16: replace_in_file counts the occurrences first: with none it fails for
\* no match, with more than one while multiple is false or omitted it fails
\* reporting the count, both without writing; otherwise it replaces every
\* occurrence in one write and reports the number of occurrences replaced.
ReplaceCounts ==
    ReplaceEnded =>
        LET a == args[1]
            n == Occurrences(before, a.regex_source)
        IN  IF n = 0
            THEN /\ pc = "failed"
                 /\ thrown[1].kind = "NoMatches"
                 /\ writes = <<>> /\ file = before
            ELSE IF n > 1 /\ a.multiple \in {NoValue, Some(FALSE)}
            THEN /\ pc = "failed"
                 /\ thrown[1] = [kind |-> "MultipleMatches", count |-> n]
                 /\ writes = <<>> /\ file = before
            ELSE /\ pc = "returned"
                 /\ writes = <<file>>
                 /\ returned[1].count = n
                 /\ Occurrences(file, a.target) = n
                 /\ Len(file) = Len(before) - n * Len(a.regex_source)
                                    + n * Len(a.target)
                 /\ a.regex_source # <<>> =>
                        Occurrences(file, a.regex_source) = 0
                 /\ replace(file, a.target, a.regex_source) = before

\* two occurrences were replaced by one call
ReplaceCountsWitness ==
    /\ ReturnedFrom("replace_in_file")
    /\ returned[1].count = 2
    /\ args[1].regex_source = <<"a">>
    /\ args[1].multiple = Some(TRUE)

(***************************************************************************)
(* Claims about verifyLineContent.                                         *)
(***************************************************************************)
\* the longest prefix of s without white space
FirstWord(s) ==
    LET k == CHOOSE k \in 0..Len(s) :
                 /\ \A i \in 1..k : ~IsSpace(s[i])
                 /\ k = Len(s) \/ IsSpace(s[k + 1])
    IN  SubSeq(s, 1, k)

RECURSIVE Words(_)
\* the words of s: its longest runs of characters that are not white space
Words(s) ==
    IF s = <<>> THEN <<>>
    ELSE IF IsSpace(s[1]) THEN Words(Tail(s))
    ELSE <<FirstWord(s)>>
           \o Words(SubSeq(s, Len(FirstWord(s)) + 1, Len(s)))

RECURSIVE Unwords(_)
\* the words with one space between each two
Unwords(ws) ==
    IF ws = <<>> THEN <<>>
    ELSE IF Len(ws) = 1 THEN ws[1]
    ELSE ws[1] \o <<" ">> \o Unwords(Tail(ws))

\* normalizeContent trims s and collapses its runs of white space, and does
\* nothing to a text it has normalized
Normalizes(s) ==
    /\ normalizeContent(s) = Unwords(Words(s))
    /\ normalizeContent(normalizeContent(s)) = normalizeContent(s)

\* C17: verifyLineContent succeeds, returning the actual line as it is in the
\* file, exactly when the normalized actual line equals the normalized
\* expected text; normalizing trims, collapses every run of white space to
\* one space and is idempotent; a line number outside 1..length always fails
\* with 'does not exist' and the number of lines.
VerifyIffNormalizedEqual ==
    (tool = "verifyLineContent" /\ pc # "idle") =>
        LET lines == Split(file)
            n == args[1].lineNumber
            expected == args[1].expectedContent
        IN  IF n < 1 \/ n > Len(lines)
            THEN /\ returned = NoValue
                 /\ thrown = Some([kind |-> "NotExist", line |-> n,
                                   len |-> Len(lines)])
            ELSE /\ Normalizes(lines[n]) /\ Normalizes(expected)
                 /\ IF normalizeContent(lines[n]) = normalizeContent(expected)
                    THEN returned = Some(lines[n]) /\ thrown = NoValue
                    ELSE /\ returned = NoValue
                         /\ thrown[1].kind = "ContentMismatch"

\* a line was accepted that differs from the expected text in its white
\* space, between words and at an end, and is returned as it is in the file
VerifyIffNormalizedEqualWitness ==
    /\ tool = "verifyLineContent"
    /\ returned # NoValue
    /\ args[1].expectedContent = <<"a", " ", "a">>
    /\ returned[1] = <<"a", "\t", "a">>

(***************************************************************************)
(* Claims about the path checks, the races and the snapshot.               *)
(***************************************************************************)
EditingTools ==
    {"replace_in_file", "delete_from_file", "insert_into_file",
     "replace_lines_in_file", "multireplace_lines_in_file"}

\* the call was refused with the error err before it read or wrote
RefusedWith(err) ==
    /\ pc = "failed"
    /\ thrown = Some(err)
    /\ returned = NoValue
    /\ reads = 0
    /\ writes = <<>>
    /\ file = before

\* C18: every editing tool checks that file_path is absolute and then that
\* it names an existing regular file before it reads or writes anything: a
\* relative path, a missing file and a path that is not a file are refused
\* with their errors, and nothing is written.
PathCheckedFirst ==
    (tool \in EditingTools) =>
        IF ~isAbsolute(file_path)
        THEN RefusedWith([kind |-> "NotAbsolute", path |-> file_path])
        ELSE IF statSync(file_path) = "ENOENT"
        THEN RefusedWith([kind |-> "FileNotFound", path |-> file_path])
        ELSE IF statSync(file_path) = "directory"
        THEN RefusedWith([kind |-> "ErrorAccessing", path |-> file_path,
                          message |-> "NotAFile"])
        ELSE thrown # NoValue => thrown[1].kind
                \notin {"NotAbsolute", "FileNotFound", "ErrorAccessing"}

\* a relative path that leads to the existing file was refused
PathCheckedFirstWitness ==
    /\ tool = "insert_into_file"
    /\ file_path = <<"file">>
    /\ statSync(file_path) = "file"
    /\ pc = "failed"
    /\ file # <<>>

\* C19: nothing locks the file between the read of the batch's snapshot and
\* its commit: when another writer changes the file in between, the commit
\* overwrites it without an error, and the file ends as this batch's edits
\* applied to the snapshot it read.
StaleCommit ==
    Done =>
        /\ thrown = NoValue
        /\ writes = <<file>>
        /\ file = execute(originalContent, submitted).file
        /\ returned = execute(originalContent, submitted).returned

\* the update of another writer was lost: the file was changed after the
\* snapshot was read, and the committed file is the snapshot with the
\* batch's edit applied
StaleCommitWitness ==
    /\ Done
    /\ others # <<>>
    /\ others[1] # originalContent
    /\ file # others[Len(others)]
    /\ Len(submitted) = 1
    /\ Succeeded(1)

\* the lines of the snapshot the batch read
SnapshotLines == Split(originalContent)

\* the k-th processed edit was checked as it is checked on the snapshot with
\* no edit applied: the same error when the check fails there, and no error
\* of a check when it passes there
CheckedOnSnapshot(k) ==
    LET alone == VerifyOriginal(edits[k], SnapshotLines, SnapshotLines)
    IN  IF alone # NoValue
        THEN ~results[k].success /\ results[k].error = alone
        ELSE \/ results[k].success
             \/ results[k].error[1].kind = "NoLongerExists"

\* C20: during a batch the original snapshot is never changed and the check
\* of every edit reads the snapshot's line at line_start: its result is the
\* same whether or not earlier edits were applied.
SnapshotVerification ==
    (pc \in {"process", "done"}) =>
        /\ originalLines = SnapshotLines
        /\ \A k \in 1..Len(results) : CheckedOnSnapshot(k)

\* the first edit was applied and changed, in the working copy, the line the
\* second edit names; the second edit passed its check on the snapshot
SnapshotVerificationWitness ==
    /\ Done
    /\ Len(results) = 2
    /\ results[1].success /\ results[2].success
    /\ LET after1 == Split(execute(originalContent, <<edits[1]>>).file)
           n == edits[2].line_start
       IN  after1[n] # originalLines[n]

(***************************************************************************)
(* Claims about the processing loop of the batch.                          *)
(***************************************************************************)
\* this step processes one edit and the edit fails
FailingTurn ==
    /\ pc = "process"
    /\ Len(results') = Len(results) + 1
    /\ ~results'[Len(results')].success

\* C21: processing an edit that fails leaves the working copy and the
\* recorded shifts exactly as they were; only the list of results grows, by
\* the failure of that edit, and the loop goes on with the next edit of the
\* sorted array.
FailedEditFrame ==
    [][FailingTurn =>
         /\ workingLines' = workingLines
         /\ lineShifts' = lineShifts
         /\ SubSeq(results', 1, Len(results)) = results
         /\ results'[Len(results')].index = Len(results)
         /\ results'[Len(results')].line_start
                = edits[Len(results) + 1].line_start
         /\ UNCHANGED <<file, edits, originalLines, writes, thrown>>
         /\ pc' = "process"]_vars

\* an edit failed and the edit after it, in sorted order, was then processed
\* and applied
FailedEditFrameWitness ==
    /\ Done
    /\ Len(results) = 2
    /\ ~results[1].success
    /\ results[2].success
    /\ Len(lineShifts) = 1

RECURSIVE LedgerSum(_)
\* the sum of all the shifts recorded
LedgerSum(shifts) ==
    IF shifts = <<>> THEN 0
    ELSE shifts[1].shift + LedgerSum(Tail(shifts))

\* the edit the loop processes next
NextEdit == edits[Len(results) + 1]

\* the loop is about to process an edit that passes the checks made on the
\* original file, and so reaches the translation of its range
ReachesTranslation ==
    /\ pc = "process"
    /\ Len(results) < Len(edits)
    /\ VerifyOriginal(NextEdit, originalLines, workingLines) = NoValue

\* this step applies the edit NextEdit
ApplyingTurn ==
    /\ pc = "process"
    /\ Len(results') = Len(results) + 1
    /\ results'[Len(results')].success

\* the working copy after the step has the lines of text from the 0-based
\* index start on, after the lines it had before that index
PutAt(start, text) ==
    /\ start >= 0
    /\ start + Len(text) <= Len(workingLines')
    /\ SubSeq(workingLines', 1, start) = SubSeq(workingLines, 1, start)
    /\ SubSeq(workingLines', start + 1, start + Len(text)) = text

\* when an edit reaches the translation of its range, every
\* recorded shift has start <= line_start, indeed end < line_start, so the
\* filtered sum is the sum of the shifts of all the edits applied before.
LedgerPrecedes ==
    ReachesTranslation =>
        /\ \A k \in 1..Len(lineShifts) :
               /\ lineShifts[k].start <= NextEdit.line_start
               /\ lineShifts[k].end < NextEdit.line_start
        /\ Adjustment(lineShifts, 1, NextEdit.line_start)
               = LedgerSum(lineShifts)

\* C22: when an edit reaches the translation of its range every recorded
\* shift lies before it, and the translated 0-based start, where the edit is
\* applied, is line_start - 1 + the sum of the shifts of all the edits
\* applied before.
TranslatedStart ==
    [][/\ LedgerPrecedes
       /\ ApplyingTurn =>
            PutAt(NextEdit.line_start - 1 + LedgerSum(lineShifts),
                  Split(NextEdit.contents))]_vars

\* the second edit was applied behind a first one that made the file longer
TranslatedStartWitness ==
    /\ Done
    /\ Len(results) = 2
    /\ results[1].success /\ results[2].success
    /\ lineShifts[1].shift = 1
    /\ workingLines[edits[2].line_start + 1] = <<"b">>

\* the translated 0-based range of the edit the loop processes next, before
\* the clamp
TranslatedStartIndex ==
    NextEdit.line_start - 1
        + Adjustment(lineShifts, 1, NextEdit.line_start)
TranslatedEndIndex ==
    NextEdit.line_end - 1
        + Adjustment(lineShifts, 1, NextEdit.line_start)

\* C23: in every batch that passes the overlap check, every edit that passes
\* the checks on the original file has a translated range with
\* 0 <= start <= end < length of the working copy: the 'no longer exists'
\* failure is never produced and the end is never clamped.
TranslatedRangeValid ==
    /\ ReachesTranslation =>
           /\ 0 <= TranslatedStartIndex
           /\ TranslatedStartIndex <= TranslatedEndIndex
           /\ TranslatedEndIndex < Len(workingLines)
    /\ \A k \in 1..Len(results) :
           results[k].error # NoValue =>
               results[k].error[1].kind # "NoLongerExists"

\* an edit is about to be translated behind an applied edit that made the
\* working copy shorter, and names the last line of the original file
TranslatedRangeValidWitness ==
    /\ ReachesTranslation
    /\ Len(lineShifts) = 1
    /\ lineShifts[1].shift = -1
    /\ NextEdit.line_end = Len(originalLines)
    /\ TranslatedEndIndex = Len(workingLines) - 1

\* the shift of an edit: its replacement lines less the lines of its range
ShiftOf(edit) ==
    Len(Split(edit.contents)) - (edit.line_end - edit.line_start + 1)

\* C24: at every point of a batch, batches with failed edits included, the
\* length of the working copy is L plus the sum of the shifts recorded; each
\* applied edit reports the shift (replacement lines) - (line_end -
\* line_start + 1) and changes the length by exactly that.
LengthFollowsLedger ==
    (pc \in {"process", "done"}) =>
        /\ Len(workingLines) = Len(originalLines) + LedgerSum(lineShifts)
        /\ \A k \in 1..Len(results) :
               results[k].success =>
                   results[k].shift = Some(ShiftOf(edits[k]))
        /\ LedgerSum(lineShifts)
               = LedgerSum([k \in 1..Len(results) |->
                              [shift |-> IF results[k].success
                                         THEN ShiftOf(edits[k]) ELSE 0]])
        /\ pc = "done" => Len(Split(file)) = Len(workingLines)

\* a batch with a failed edit and an applied one that made the file longer
LengthFollowsLedgerWitness ==
    /\ Done
    /\ Len(results) = 2
    /\ ~results[1].success
    /\ results[2].success
    /\ LedgerSum(lineShifts) = 1
    /\ Len(workingLines) = Len(originalLines) + 1

\* the applied edits among those processed
AppliedEdits == {k \in 1..Len(results) : results[k].success}

\* the lines of the original file in the range of no applied edit
Untouched ==
    {n \in 1..Len(originalLines) :
        \A k \in AppliedEdits :
            n < edits[k].line_start \/ n > edits[k].line_end}

\* C25: a replacement text always splits into at least one line, the empty
\* text into one empty line, so every applied edit leaves at least one line
\* in place of its range: its shift is at least 1 - (line_end - line_start
\* + 1), no edit removes a range without leaving a line, and the working
\* copy and the committed file always have at least one line.
AlwaysALine ==
    (pc \in {"process", "done"}) =>
        /\ \A k \in AppliedEdits :
               /\ Len(Split(edits[k].contents)) >= 1
               /\ results[k].shift[1]
                      >= 1 - (edits[k].line_end - edits[k].line_start + 1)
        /\ Len(workingLines)
               >= Cardinality(Untouched) + Cardinality(AppliedEdits)
        /\ Len(workingLines) >= 1
        /\ pc = "done" => Len(Split(file)) >= 1

\* every line of the file was replaced by the empty text: the file is
\* committed empty and has one line
AlwaysALineWitness ==
    /\ Done
    /\ Len(originalLines) = 2
    /\ AppliedEdits = {1}
    /\ edits[1].line_start = 1 /\ edits[1].line_end = 2
    /\ edits[1].contents = <<>>
    /\ file = <<>>
    /\ workingLines = << <<>> >>

(***************************************************************************)
(* Claims about the batch as a whole.                                      *)
(***************************************************************************)
\* the orders of n positions, for every length of a batch
Orders ==
    [n \in 0..MaxEdits |->
        {q \in [1..n -> 1..n] : \A i, j \in 1..n : q[i] = q[j] => i = j}]

\* the orders in which the caller can list the edits of batch
Listings(batch) ==
    {[k \in 1..Len(batch) |-> batch[p[k]]] : p \in Orders[Len(batch)]}

\* what an outcome line says of its edit, but its number
Told(line) ==
    <<line.line_start, line.line_end, line.status, line.shift>>

\* the two reports tell the same outcomes, each as many times
SameOutcomes(linesA, linesB) ==
    /\ Len(linesA) = Len(linesB)
    /\ \A k \in 1..Len(linesA) :
           Cardinality({m \in 1..Len(linesA) :
                          Told(linesA[m]) = Told(linesA[k])})
             = Cardinality({m \in 1..Len(linesB) :
                              Told(linesB[m]) = Told(linesA[k])})

\* C26: the result of a batch does not depend on the order in which the
\* caller lists the edits: on the same file content, a batch listed in any
\* other order is rejected for overlapping ranges when this one is, and
\* otherwise commits the same file with the same outcomes (line_start,
\* line_end, status, shift).
OrderIndependent ==
    Ended =>
        \A other \in Listings(submitted) :
            \A o \in {execute(originalContent, other)} :
            IF pc = "rejected"
            THEN /\ o.thrown # NoValue
                 /\ o.thrown[1].kind = "OverlappingRanges"
                 /\ o.file = file
            ELSE /\ o.thrown = NoValue
                 /\ o.file = file
                 /\ SameOutcomes(returned[1].lines, o.returned[1].lines)

\* a batch listed against the sorted order was committed with one edit
\* applied and one failed
OrderIndependentWitness ==
    /\ Done
    /\ Len(submitted) = 2
    /\ submitted[1].line_start > submitted[2].line_start
    /\ edits # submitted
    /\ results[1].success
    /\ ~results[2].success

\* every submitted edit has line_start <= line_end and the ranges are
\* pairwise disjoint
DisjointRanges ==
    /\ \A j \in 1..Len(submitted) :
           submitted[j].line_start <= submitted[j].line_end
    /\ \A i, j \in 1..Len(submitted) :
           i # j => \/ submitted[i].line_end < submitted[j].line_start
                    \/ submitted[j].line_end < submitted[i].line_start

\* the batch call read the file
BatchRead ==
    /\ tool = "multireplace_lines_in_file"
    /\ pc \in {"process", "done", "rejected"}

\* C28: a batch whose edits all have line_start <= line_end and whose ranges
\* are pairwise disjoint is never rejected with the overlapping-ranges
\* error, whatever the order of submission; two adjacent ranges are accepted
\* and every edit is processed.
DisjointAccepted ==
    (BatchRead /\ DisjointRanges) =>
        /\ pc # "rejected"
        /\ thrown = NoValue
        /\ OverlapLine(edits) = 0
        /\ Done => Len(results) = Len(submitted)

\* two adjacent ranges, listed the later one first, were both processed
DisjointAcceptedWitness ==
    /\ Done
    /\ DisjointRanges
    /\ Len(submitted) = 2
    /\ submitted[1].line_start = submitted[2].line_end + 1
    /\ Len(results) = 2
    /\ results[1].success /\ results[2].success

\* the edit of the set S of submitted edits with the largest line_start
Lowest(S) ==
    CHOOSE j \in S :
        \A m \in S : submitted[m].line_start <= submitted[j].line_start

RECURSIVE OneByOne(_, _)
\* replace_lines_in_file called once for each submitted edit of S, in
\* descending order of line_start, from the content on: what the first
\* failing call throws, and the content of the file at the end
OneByOne(content, S) ==
    IF S = {} THEN [thrown |-> NoValue, file |-> content]
    ELSE LET j == Lowest(S)
             call == replace_lines_in_file(content, submitted[j])
         IN  IF call.thrown # NoValue THEN call
             ELSE OneByOne(call.file, S \ {j})

\* C27: for a batch of pairwise non-overlapping edits that all succeed, the
\* file the batch commits is the file that replace_lines_in_file leaves when
\* called once per edit, with the same line numbers, expected text and
\* contents, in descending order of line_start on the same original file.
BatchAsSingleCalls ==
    AllSucceeded =>
        /\ DisjointRanges
        /\ OneByOne(originalContent, 1..Len(submitted)).thrown = NoValue
        /\ OneByOne(originalContent, 1..Len(submitted)).file = file

\* two edits that change the number of lines were applied by one batch
BatchAsSingleCallsWitness ==
    /\ AllSucceeded
    /\ Len(submitted) = 2
    /\ submitted[1].line_start < submitted[2].line_start
    /\ results[1].shift = Some(1)
    /\ results[2].shift = Some(1)
    /\ Len(FinalLines) = L + 2

(***************************************************************************)
(* Claims about invocations in one process and about other writers.        *)
(***************************************************************************)
\* the call has ended
CallEnded == pc \in {"done", "rejected", "returned", "failed"}

\* the content of the file after the body of this call has run on content
ThisCall(content) ==
    IF reads = 0 THEN content
    ELSE IF tool = "delete_from_file"
    THEN delete_from_file(content, args[1]).file
    ELSE execute(content, submitted).file

\* the content of the file before the first of the two invocations
FirstContent ==
    IF inProcess[1].at = "idle" THEN inProcess[1].before ELSE before

\* C29: in one server process the body of each invocation runs to its end
\* without a point at which it yields, so two invocations on the same file
\* never interleave their reads and writes: when both have ended the file
\* is the result of running them one after the other in some order, and no
\* update of either is lost.
RunToCompletion ==
    (CallEnded /\ inProcess # NoValue) =>
        /\ inProcess[1].at \in BetweenCalls
        /\ \/ file = RunCall(ThisCall(FirstContent), inProcess[1].call)
           \/ file = ThisCall(RunCall(FirstContent, inProcess[1].call))

\* a batch applied its edit to the file a delete_from_file of the same
\* process had changed before
RunToCompletionWitness ==
    /\ Done
    /\ inProcess # NoValue
    /\ inProcess[1].at = "idle"
    /\ inProcess[1].call.tool = "delete_from_file"
    /\ inProcess[1].before # before
    /\ Len(results) = 1
    /\ results[1].success
    /\ file # before

\* C30: in delete_from_file and replace_lines_in_file the content that is
\* verified is the content that is edited: a call never deletes or replaces
\* a range whose first line, in the content it read for editing and wrote
\* back, fails to match the expected text after normalization, even when
\* another process rewrites the file between the two reads.
VerifiedIsEdited ==
    (ReturnedFrom("delete_from_file")
         \/ ReturnedFrom("replace_lines_in_file")) =>
        normalizeContent(OldLines[args[1].line_start])
            = normalizeContent(args[1].line_start_contents)

====
